---- MODULE Spec2Model ----
(***************************************************************************)
(* DomainHunter (src/main.py): the asynchronous subdomain scanner.         *)
(*                                                                         *)
(* Strings are sequences of tokens (a token is a TLA+ string standing for  *)
(* one or more characters), so that formatting, joining, stripping and     *)
(* slicing are computed as the Python code computes them.  The event loop  *)
(* is modelled at the granularity of its suspension points: a task runs    *)
(* from one await to the next without interleaving.  The wall clock is an  *)
(* input: every measured duration is drawn from Durations.                *)
(***************************************************************************)
EXTENDS Integers, Sequences, FiniteSets, TLC

\* ---------------------------------------------------------------- bounds
MaxLines == 3
MaxConcurrency == 3

\* ---------------------------------------------------------------- inputs
None == "None"
Whitespace == {" ", "\n"}
RawLines == { <<"www", "\n">>, <<" ", "mail", "\n">>, <<" ", "\n">> }
DirectWords == { <<"www">>, <<"mail">>, <<>> }
Domain == <<"example.com">>
OutputPath == "out.txt"
\* the output file before anything is written to it
NoFile == [exists |-> FALSE, text |-> <<>>]
\* how open() and writelines() can end in save_results
IOOutcomes == {"ok", "open_error", "write_error"}
AddrLists == { <<"192.0.2.1", "2001:db8::1">> }
Durations == { "0.01" }
LookupOutcomes ==
    [kind : {"ok"}, addresses : AddrLists]
      \cup [kind : {"DNSError", "Exception"}, addresses : {<<>>}]

SeqsUpTo(S, n) == UNION { [1..k -> S] : k \in 0..n }

Min(a, b) == IF a < b THEN a ELSE b
Max(a, b) == IF a > b THEN a ELSE b

\* ------------------------------------------------------- Python builtins
RECURSIVE lstrip(_)
lstrip(s) ==
    IF s # <<>> /\ Head(s) \in Whitespace THEN lstrip(Tail(s)) ELSE s

RECURSIVE rstrip(_)
rstrip(s) ==
    IF s # <<>> /\ s[Len(s)] \in Whitespace
    THEN rstrip(SubSeq(s, 1, Len(s) - 1)) ELSE s

strip(s) == rstrip(lstrip(s))

RECURSIVE join(_, _)
join(sep, parts) ==
    IF parts = <<>> THEN <<>>
    ELSE IF Len(parts) = 1 THEN <<parts[1]>>
    ELSE <<parts[1], sep>> \o join(sep, Tail(parts))

SliceIndex(x, n) == IF x < 0 THEN Max(n + x, 0) ELSE Min(x, n)

\* s[a:b] with the stop index taken as inclusive
PySlice_inclusive(s, a, b) ==
    SubSeq(s, SliceIndex(a, Len(s)) + 1, SliceIndex(b + 1, Len(s)))

\* s[a:b] that yields nothing when the stop index lies beyond the end
PySlice_unclamped(s, a, b) ==
    IF b > Len(s) THEN <<>> ELSE SubSeq(s, a + 1, b)

\* s[:b], the slice that forgets its start index
PySlice_prefix(s, a, b) == SubSeq(s, 1, SliceIndex(b, Len(s)))

\* Python s[a:b]

PySlice(s, a, b) == SubSeq(s, SliceIndex(a, Len(s)) + 1, SliceIndex(b, Len(s)))

\* range() that stops one short of stop
RECURSIVE PyRange_short(_, _, _)
PyRange_short(start, stop, step) ==
    IF (step > 0 /\ start < stop - 1) \/ (step < 0 /\ start > stop + 1)
    THEN <<start>> \o PyRange_short(start + step, stop, step)
    ELSE <<>>

\* range() over abs(step)
RECURSIVE PyRange_abs(_, _, _)
PyRange_abs(start, stop, step) ==
    IF step # 0 /\ start < stop
    THEN <<start>> \o
           PyRange_abs(start + (IF step < 0 THEN 0 - step ELSE step), stop, step)
    ELSE <<>>

\* Python list(range(start, stop, step)) for step # 0
RECURSIVE PyRange(_, _, _)
PyRange(start, stop, step) ==
    IF (step > 0 /\ start < stop) \/ (step < 0 /\ start > stop)
    THEN <<start>> \o PyRange(start + step, stop, step)
    ELSE <<>>

VARIABLES
    entry, file_status, file_lines,
    wordlist, concurrency, output_file,
    pc, outcome,
    subdomains, total, completed, it, i,
    tasks, results, out_file, writes, errlog

vars == << entry, file_status, file_lines, wordlist, concurrency, output_file,
           pc, outcome, subdomains, total, completed, it, i,
           tasks, results, out_file, writes, errlog >>

\* ------------------------------------------------------------ operations
LogEntry(msg, arg) == [msg |-> msg, arg |-> arg]

\* WordlistLoader.load: the words and the error-log lines it produces
load(status, lines) ==
    IF status = "missing"
    THEN [words |-> <<>>, log |-> <<LogEntry("Wordlist file not found", <<>>)>>]
    ELSE IF status = "ioerror"
    THEN [words |-> <<>>, log |-> <<LogEntry("Error reading wordlist file", <<>>)>>]
    ELSE [words |-> SelectSeq([k \in 1..Len(lines) |-> strip(lines[k])],
                              LAMBDA w : w # <<>>),
          log |-> <<>>]

\* the test written as "if wordlist is None", which a list never satisfies
not_wordlist_is_None(words) == FALSE

\* ScannerApp.run line 96: "if not wordlist"
not_wordlist(words) == words = <<>>

\* generate_subdomains with the format string written as domain.word
generate_subdomains_swapped(words, dom) ==
    LET kept == SelectSeq(words, LAMBDA w : w # <<>>)
    IN  [k \in 1..Len(kept) |-> dom \o <<".">> \o kept[k]]

\* SubdomainScanner.generate_subdomains
generate_subdomains(words, dom) ==
    LET kept == SelectSeq(words, LAMBDA w : w # <<>>)
    IN  [k \in 1..Len(kept) |-> kept[k] \o <<".">> \o dom]

\* resolve that logs every failed lookup, DNS errors included
resolve_log_all_failures(subdomain, lookup) ==
    IF lookup.kind = "ok"
    THEN [ret |-> lookup.addresses, raised |-> FALSE, log |-> <<>>]
    ELSE [ret |-> <<>>, raised |-> FALSE,
          log |-> <<LogEntry("Error resolving", subdomain)>>]

\* resolve without any try/except: every lookup error leaves the coroutine
resolve_no_except(subdomain, lookup) ==
    IF lookup.kind = "ok"
    THEN [ret |-> lookup.addresses, raised |-> FALSE, log |-> <<>>]
    ELSE [ret |-> <<>>, raised |-> TRUE, log |-> <<>>]

\* resolve without the "except Exception" clause
resolve_reraise(subdomain, lookup) ==
    IF lookup.kind = "ok"
    THEN [ret |-> lookup.addresses, raised |-> FALSE, log |-> <<>>]
    ELSE IF lookup.kind = "DNSError"
    THEN [ret |-> <<>>, raised |-> FALSE, log |-> <<>>]
    ELSE [ret |-> <<>>, raised |-> TRUE, log |-> <<>>]

\* DNSResolver.resolve: what the coroutine returns or raises for the outcome
\* of the underlying gethostbyname call
resolve(subdomain, lookup) ==
    IF lookup.kind = "ok"
    THEN [ret |-> lookup.addresses, raised |-> FALSE, log |-> <<>>]
    ELSE IF lookup.kind = "DNSError"
    THEN [ret |-> <<>>, raised |-> FALSE, log |-> <<>>]
    ELSE [ret |-> <<>>, raised |-> FALSE,
          log |-> <<LogEntry("Error resolving", subdomain)>>]

\* the line appended to self.results
FormatResult(subdomain, ips, duration) ==
    subdomain \o <<" -> ">> \o join(", ", ips) \o <<" ", duration>>

\* resolve_subdomain with progress.update indented under the if
resolve_subdomain_advance_in_if(subdomain, ips, duration, res, done) ==
    [results   |-> IF ips # <<>>
                   THEN Append(res, FormatResult(subdomain, ips, duration))
                   ELSE res,
     completed |-> IF ips # <<>> THEN done + 1 ELSE done]

\* resolve_subdomain that skips a line self.results already holds
resolve_subdomain_dedup(subdomain, ips, duration, res, done) ==
    [results   |-> IF ips # <<>> /\ \A e \in 1..Len(res) :
                         res[e] # FormatResult(subdomain, ips, duration)
                   THEN Append(res, FormatResult(subdomain, ips, duration))
                   ELSE res,
     completed |-> done + 1]

\* resolve_subdomain that advances both inside the if and after it
resolve_subdomain_double_advance(subdomain, ips, duration, res, done) ==
    [results   |-> IF ips # <<>>
                   THEN Append(res, FormatResult(subdomain, ips, duration))
                   ELSE res,
     completed |-> IF ips # <<>> THEN done + 2 ELSE done + 1]

\* SubdomainScanner.resolve_subdomain after the await: the new self.results
\* and the new progress count
resolve_subdomain(subdomain, ips, duration, res, done) ==
    [results   |-> IF ips # <<>>
                   THEN Append(res, FormatResult(subdomain, ips, duration))
                   ELSE res,
     completed |-> done + 1]

\* file.writelines(self.results): the entries written without a newline
RECURSIVE writelines_no_newline(_)
writelines_no_newline(res) ==
    IF res = <<>> THEN <<>>
    ELSE Head(res) \o writelines_no_newline(Tail(res))

\* file.writelines(f"{result}\n" for result in ...): the text written
RECURSIVE writelines(_)
writelines(res) ==
    IF res = <<>> THEN <<>>
    ELSE Head(res) \o <<"\n">> \o writelines(Tail(res))

\* the lines of a text, each without its terminating newline
RECURSIVE splitlines(_)
splitlines(text) ==
    IF text = <<>> THEN <<>>
    ELSE LET n == IF \E k \in 1..Len(text) : text[k] = "\n"
                  THEN CHOOSE k \in 1..Len(text) :
                         /\ text[k] = "\n"
                         /\ \A j \in 1..(k - 1) : text[j] # "\n"
                  ELSE Len(text) + 1
         IN  <<SubSeq(text, 1, n - 1)>> \o
               splitlines(SubSeq(text, n + 1, Len(text)))

\* save_results without its try/except: the IOError leaves the method
save_results_no_except(path, res, old, io, kept) ==
    IF io = "ok"
    THEN [file |-> [exists |-> TRUE, text |-> writelines(res)],
          written |-> TRUE, raised |-> FALSE, log |-> <<>>]
    ELSE IF io = "open_error"
    THEN [file |-> old, written |-> FALSE, raised |-> TRUE, log |-> <<>>]
    ELSE [file |-> [exists |-> TRUE,
                    text |-> writelines(SubSeq(res, 1, kept))],
          written |-> FALSE, raised |-> TRUE, log |-> <<>>]

\* save_results called only when there is something to write
save_results_skip_empty(path, res, old, io, kept) ==
    IF res = <<>>
    THEN [file |-> old, written |-> FALSE, raised |-> FALSE, log |-> <<>>]
    ELSE IF io = "ok"
    THEN [file |-> [exists |-> TRUE, text |-> writelines(res)],
          written |-> TRUE, raised |-> FALSE, log |-> <<>>]
    ELSE IF io = "open_error"
    THEN [file |-> old, written |-> FALSE, raised |-> FALSE,
          log |-> <<LogEntry("Error saving results", <<>>)>>]
    ELSE [file |-> [exists |-> TRUE,
                    text |-> writelines(SubSeq(res, 1, kept))],
          written |-> FALSE, raised |-> FALSE,
          log |-> <<LogEntry("Error saving results", <<>>)>>]

\* SubdomainScanner.save_results: the file after the call and the log lines.
\* io tells how the system calls end; after a failed write the file holds
\* the first `kept` lines.
save_results(path, res, old, io, kept) ==
    IF io = "ok"
    THEN [file |-> [exists |-> TRUE, text |-> writelines(res)],
          written |-> TRUE, raised |-> FALSE, log |-> <<>>]
    ELSE IF io = "open_error"
    THEN [file |-> old, written |-> FALSE, raised |-> FALSE,
          log |-> <<LogEntry("Error saving results", <<>>)>>]
    ELSE [file |-> [exists |-> TRUE,
                    text |-> writelines(SubSeq(res, 1, kept))],
          written |-> FALSE, raised |-> FALSE,
          log |-> <<LogEntry("Error saving results", <<>>)>>]

\* the tasks one batch creates (line 64), in batch order
NewTasks(batch, start, group) ==
    [k \in 1..Len(batch) |->
        [subdomain |-> batch[k], idx |-> start + k - 1, group |-> group,
         state |-> "created", started |-> FALSE, lookup |-> None,
         resolved_ips |-> <<>>]]

\* a wait that returns as soon as one task is done
gather_returned_any(ts) == ts = <<>> \/ \E k \in 1..Len(ts) : ts[k].state = "done"

\* tasks that are created but never awaited
gather_returned_not_awaited(ts) == TRUE

\* asyncio.gather(*tasks) has returned: every task created so far is done
gather_returned(ts) == \A k \in 1..Len(ts) : ts[k].state = "done"

\* the tasks that have sent their lookup and have not finished
InFlight == {k \in 1..Len(tasks) : tasks[k].state = "waiting"}
Unfinished(ts) == {k \in 1..Len(ts) : ts[k].state \in {"created", "waiting"}}
CancelAll(ts) ==
    [k \in 1..Len(ts) |->
        IF k \in Unfinished(ts) THEN [ts[k] EXCEPT !.state = "cancelled"] ELSE ts[k]]

\* ------------------------------------------------------------------ Init
Init ==
    /\ \/ /\ entry = "run"
          /\ \/ file_status = "ok" /\ file_lines \in SeqsUpTo(RawLines, MaxLines)
             \/ file_status \in {"missing", "ioerror"} /\ file_lines = <<>>
          /\ wordlist = <<>>
          /\ pc = "run"
       \/ /\ entry = "direct"
          /\ file_status = "none" /\ file_lines = <<>>
          /\ wordlist \in SeqsUpTo(DirectWords, MaxLines)
          /\ pc = "scan"
    /\ concurrency \in -1..MaxConcurrency
    /\ output_file \in {None, OutputPath}
    /\ outcome = "none"
    /\ subdomains = <<>> /\ total = 0 /\ completed = 0 /\ it = 0 /\ i = 0
    /\ tasks = <<>> /\ results = <<>>
    /\ out_file = NoFile /\ writes = 0 /\ errlog = <<>>

\* --------------------------------------------------------------- actions
\* ScannerApp.run, lines 95-99: load the wordlist, leave if it is empty
run_load ==
    /\ pc = "run"
    /\ LET l == load(file_status, file_lines) IN
        /\ wordlist' = l.words
        /\ errlog' = errlog \o l.log
        /\ IF not_wordlist(l.words)
           THEN pc' = "exit" /\ outcome' = "empty_wordlist"
           ELSE pc' = "scan" /\ outcome' = outcome
    /\ UNCHANGED << entry, file_status, file_lines, concurrency, output_file,
                    subdomains, total, completed, it, i, tasks, results,
                    out_file, writes >>

\* SubdomainScanner.scan, lines 54-62: candidates, progress task, range()
scan_begin_with(n) ==
    /\ pc = "scan"
    /\ subdomains' = generate_subdomains(wordlist, Domain)
    /\ total' = Len(subdomains')
    /\ completed' = 0
    /\ it' = 0
    /\ IF n = 0
       THEN \* range() arg 3 must not be zero: ValueError
            /\ pc' = "exit"
            /\ IF entry = "run"
               THEN /\ outcome' = "error"
                    /\ errlog' = Append(errlog, LogEntry("Unexpected error", <<>>))
               ELSE /\ outcome' = "raised"
                    /\ errlog' = errlog
       ELSE pc' = "loop" /\ UNCHANGED << outcome, errlog >>
    /\ UNCHANGED << entry, file_status, file_lines, wordlist, concurrency,
                    output_file, i, tasks, results, out_file, writes >>

scan_begin == scan_begin_with(concurrency)

\* the for loop takes its next value: lines 62-65 up to the await
batch_start_with(n) ==
    /\ pc = "loop"
    /\ gather_returned(tasks)
    /\ LET r == PyRange(0, Len(subdomains), n) IN
        /\ it < Len(r)
        /\ it' = it + 1
        /\ i' = r[it + 1]
        /\ LET batch == PySlice(subdomains, i', i' + n)
           IN  tasks' = tasks \o NewTasks(batch, i', it + 1)
    /\ UNCHANGED << entry, file_status, file_lines, wordlist, concurrency,
                    output_file, pc, outcome, subdomains, total, completed,
                    results, out_file, writes, errlog >>

batch_start == batch_start_with(concurrency)

\* the event loop runs a created task up to its await (lines 44-45); the
\* ready queue is first in, first out
task_start(k) ==
    /\ pc = "loop"
    /\ tasks[k].state = "created"
    /\ \A j \in 1..(k - 1) : tasks[j].state # "created"
    /\ tasks' = [tasks EXCEPT ![k].state = "waiting", ![k].started = TRUE]
    /\ UNCHANGED << entry, file_status, file_lines, wordlist, concurrency,
                    output_file, pc, outcome, subdomains, total, completed,
                    it, i, results, out_file, writes, errlog >>

\* the lookup of task k returns: DNSResolver.resolve then lines 46-51
task_finish(k) ==
    /\ pc = "loop"
    /\ tasks[k].state = "waiting"
    /\ \E lookup \in LookupOutcomes, duration \in Durations :
        LET r == resolve(tasks[k].subdomain, lookup) IN
        IF r.raised
        THEN \* the exception leaves gather, scan and reaches run
             /\ tasks' = CancelAll([tasks EXCEPT ![k].state = "failed",
                                                 ![k].lookup = lookup.kind])
             /\ pc' = "exit"
             /\ outcome' = IF entry = "run" THEN "error" ELSE "raised"
             /\ errlog' = errlog \o r.log \o
                    (IF entry = "run"
                     THEN <<LogEntry("Unexpected error", <<>>)>> ELSE <<>>)
             /\ UNCHANGED << results, completed >>
        ELSE LET s == resolve_subdomain(tasks[k].subdomain, r.ret, duration,
                                        results, completed) IN
             /\ tasks' = [tasks EXCEPT ![k].state = "done",
                                       ![k].lookup = lookup.kind,
                                       ![k].resolved_ips = r.ret]
             /\ results' = s.results
             /\ completed' = s.completed
             /\ errlog' = errlog \o r.log
             /\ UNCHANGED << pc, outcome >>
    /\ UNCHANGED << entry, file_status, file_lines, wordlist, concurrency,
                    output_file, subdomains, total, it, i, out_file, writes >>

\* the for loop is exhausted: lines 66-67, then scan and run return
scan_finish_with(n) ==
    /\ pc = "loop"
    /\ gather_returned(tasks)
    /\ it >= Len(PyRange(0, Len(subdomains), n))
    /\ IF output_file # None
       THEN \E io \in IOOutcomes, kept \in 0..Len(results) :
              LET s == save_results(output_file, results, out_file, io, kept) IN
              /\ out_file' = s.file
              /\ writes' = IF s.written THEN writes + 1 ELSE writes
              /\ IF s.raised
                 THEN \* the exception leaves scan and reaches run
                      /\ outcome' = IF entry = "run" THEN "error" ELSE "raised"
                      /\ errlog' = errlog \o s.log \o
                           (IF entry = "run"
                            THEN <<LogEntry("Unexpected error", <<>>)>>
                            ELSE <<>>)
                 ELSE /\ outcome' = "finished"
                      /\ errlog' = errlog \o s.log
       ELSE /\ outcome' = "finished"
            /\ UNCHANGED << out_file, writes, errlog >>
    /\ pc' = "exit"
    /\ UNCHANGED << entry, file_status, file_lines, wordlist, concurrency,
                    output_file, subdomains, total, completed, it, i, tasks,
                    results >>

scan_finish == scan_finish_with(concurrency)

\* a SIGINT that is noted but does not stop the loop
interrupt_swallowed ==
    /\ pc \in {"scan", "loop"}
    /\ outcome' \in {"interrupted", "cancelled"}
    /\ UNCHANGED << entry, file_status, file_lines, wordlist, concurrency,
                    output_file, pc, subdomains, total, completed, it, i,
                    tasks, results, out_file, writes, errlog >>

\* SIGINT while the scan runs.  Depending on the interpreter the main task
\* sees KeyboardInterrupt (caught at line 103) or is cancelled (the
\* CancelledError passes both except clauses); either way the rest of scan
\* is skipped and the loop shutdown cancels the unfinished tasks.
interrupt ==
    /\ pc \in {"scan", "loop"}
    /\ pc' = "exit"
    /\ outcome' \in {"interrupted", "cancelled"}
    /\ tasks' = CancelAll(tasks)
    /\ UNCHANGED << entry, file_status, file_lines, wordlist, concurrency,
                    output_file, subdomains, total, completed, it, i, results,
                    out_file, writes, errlog >>

\* the event loop starts some created task / some lookup returns
start_any == \E k \in 1..Len(tasks) : task_start(k)
finish_any == \E k \in 1..Len(tasks) : task_finish(k)

Next ==
    \/ run_load
    \/ scan_begin
    \/ batch_start
    \/ start_any
    \/ finish_any
    \/ scan_finish
    \/ interrupt

Spec == Init /\ [][Next]_vars

\* a run in which no SIGINT arrives
NextUninterrupted ==
    \/ run_load
    \/ scan_begin
    \/ batch_start
    \/ start_any
    \/ finish_any
    \/ scan_finish

\* The event loop runs every ready callback, so the main coroutine and the
\* created tasks take their next step when they can; every lookup that was
\* sent returns.
LiveSpec ==
    /\ Init /\ [][NextUninterrupted]_vars
    /\ WF_vars(run_load) /\ WF_vars(scan_begin) /\ WF_vars(batch_start)
    /\ WF_vars(start_any) /\ WF_vars(finish_any) /\ WF_vars(scan_finish)

TypeOK ==
    /\ pc \in {"run", "scan", "loop", "exit"}
    /\ outcome \in {"none", "empty_wordlist", "finished", "interrupted",
                     "cancelled", "error", "raised"}
    /\ completed \in Nat /\ total \in Nat /\ it \in Nat /\ i \in Nat
    /\ \A k \in 1..Len(tasks) :
         tasks[k].state \in {"created", "waiting", "done", "failed", "cancelled"}

\* ------------------------------------------------------------ properties
L == Len(subdomains)
TaskIds == 1..Len(tasks)
Positions == 1..Len(subdomains)
\* the tasks created for the candidate at position p of subdomains
TasksOf(p) == {k \in TaskIds : tasks[k].idx = p - 1}
Finished(p) == \E k \in TasksOf(p) : tasks[k].state = "done"
Resolved(k) == tasks[k].state = "done" /\ tasks[k].resolved_ips # <<>>
Ceil(a, b) == (a + b - 1) \div b

\* C1: with a concurrency limit N >= 1, the number of resolve_subdomain
\* tasks that have started their lookup and not yet finished is at most N
\* in every reachable state.
C1_InFlightAtMostN ==
    concurrency >= 1 => Cardinality(InFlight) <= concurrency

C1_Witness ==
    /\ concurrency >= 2
    /\ L > concurrency
    /\ Cardinality(InFlight) = concurrency

\* C2: barrier between groups: a task whose lookup has started belongs to a
\* group all of whose predecessors' tasks have finished (state done, with a
\* successful or a failed lookup).
C2_GroupBarrier ==
    \A j, k \in TaskIds :
        (tasks[j].started /\ tasks[k].group < tasks[j].group)
            => tasks[k].state = "done"

C2_Witness ==
    \E j, k1, k2 \in TaskIds :
        /\ tasks[j].group = 2 /\ tasks[j].state = "waiting"
        /\ tasks[k1].group = 1 /\ tasks[k1].lookup = "DNSError"
        /\ tasks[k2].group = 1 /\ tasks[k2].lookup = "ok"

\* C3: the progress counter is advanced exactly once per candidate, for a
\* successful and for a failed lookup alike: completed is the number of
\* finished candidates, no candidate has two tasks, for N >= 1 completed
\* equals total when scan has finished, and while a candidate is unfinished
\* completed differs from total.
C3_ProgressOncePerCandidate ==
    /\ \A p \in Positions : Cardinality(TasksOf(p)) <= 1
    /\ completed = Cardinality({p \in Positions : Finished(p)})
    /\ (outcome = "finished" /\ concurrency >= 1) => completed = total
    /\ (pc = "loop" /\ \E p \in Positions : ~Finished(p)) => completed # total

C3_Witness ==
    /\ outcome = "finished" /\ concurrency >= 1
    /\ completed = total /\ total >= 2
    /\ \E k \in TaskIds : tasks[k].lookup = "DNSError"
    /\ \E k \in TaskIds : tasks[k].lookup = "Exception"
    /\ \E k \in TaskIds : tasks[k].lookup = "ok"

\* the entries of self.results that report candidate name s with addresses a
EntriesFor(s, a) ==
    {e \in 1..Len(results) :
        \E d \in Durations : results[e] = FormatResult(s, a, d)}

\* C4: after a scan that ran to completion, self.results holds exactly one
\* entry per candidate occurrence whose lookup returned a non-empty address
\* list (a label that occurs twice and resolves twice has two entries) and
\* no entry for a candidate whose lookup returned an empty list.
C4_ResultsExactlySuccesses ==
    outcome = "finished" =>
        /\ Len(results) =
             Cardinality({p \in Positions : \E k \in TasksOf(p) : Resolved(k)})
        /\ \A p \in Positions : \A a \in AddrLists :
             Cardinality(EntriesFor(subdomains[p], a)) =
               Cardinality({q \in Positions :
                   /\ subdomains[q] = subdomains[p]
                   /\ \E k \in TasksOf(q) :
                        Resolved(k) /\ tasks[k].resolved_ips = a})

C4_Witness ==
    /\ outcome = "finished"
    /\ \E j, k, m \in TaskIds :
        /\ j # k
        /\ tasks[j].subdomain = tasks[k].subdomain
        /\ tasks[j].resolved_ips = tasks[k].resolved_ips
        /\ Resolved(j) /\ Resolved(k)
        /\ tasks[m].state = "done" /\ tasks[m].resolved_ips = <<>>
    /\ Len(results) = 2
\* C5: if the scan is interrupted while a group is in flight and an output
\* path was supplied, the results collected so far are in the output file
\* when the program has exited.
C5_InterruptFlushesResults ==
    (/\ entry = "run" /\ pc = "exit"
     /\ outcome \in {"interrupted", "cancelled"}
     /\ output_file # None
     /\ results # <<>>
     /\ \E k \in TaskIds : tasks[k].state = "cancelled")
        => out_file = [exists |-> TRUE, text |-> writelines(results)]

\* C6: when WordlistLoader.load returns an empty list, ScannerApp.run ends
\* at once: no lookup task is ever created and the output file is never
\* written, with or without an output path.
C6_EmptyWordlistAborts ==
    (entry = "run" /\ pc # "run" /\ wordlist = <<>>) =>
        /\ pc = "exit" /\ outcome = "empty_wordlist"
        /\ tasks = <<>> /\ results = <<>>
        /\ out_file = NoFile /\ writes = 0

C6_Witness ==
    /\ entry = "run" /\ outcome = "empty_wordlist"
    /\ file_status = "ok" /\ Len(file_lines) >= 2
    /\ output_file # None

\* C7: a failing lookup (DNS error or any other exception) never leaves the
\* resolver as an error: no task fails, the task is done with an empty
\* address list, the scan is not aborted by it, and a scan that finishes
\* with N >= 1 has resolved every candidate.
C7_LookupFailureContained ==
    /\ \A k \in TaskIds :
         /\ tasks[k].state # "failed"
         /\ (tasks[k].state = "done" /\ tasks[k].lookup # "ok")
               => tasks[k].resolved_ips = <<>>
    /\ concurrency # 0 => outcome \notin {"error", "raised"}
    /\ (outcome = "finished" /\ concurrency >= 1)
          => \A p \in Positions : Finished(p)

C7_Witness ==
    /\ outcome = "finished"
    /\ \E j, k, m \in TaskIds :
        /\ tasks[j].group = 1 /\ tasks[j].lookup = "Exception"
        /\ tasks[k].group = 1 /\ tasks[k].lookup = "ok" /\ k > j
        /\ tasks[m].group = 2 /\ tasks[m].lookup = "ok"

\* the tasks of group g, in creation order
GroupTasks(g) == SelectSeq(tasks, LAMBDA t : t.group = g)

\* C8: for N >= 1 the groups are consecutive slices of the candidate
\* sequence: the k-th task created is for candidate k and lies in group
\* ceil(k/N); so far `it` groups were started, each of exactly N candidates
\* except a last one of 1..N; a finished scan ran exactly ceil(L/N) groups
\* and every candidate is in exactly one of them.
C8_ConsecutiveGroups ==
    (concurrency >= 1 /\ pc \in {"loop", "exit"} /\ outcome # "raised") =>
        /\ Len(tasks) = Min(it * concurrency, L)
        /\ \A k \in TaskIds :
             /\ tasks[k].idx = k - 1
             /\ tasks[k].subdomain = subdomains[k]
             /\ tasks[k].group = Ceil(k, concurrency)
        /\ \A g \in 1..it :
             /\ Len(GroupTasks(g)) \in 1..concurrency
             /\ g < Ceil(L, concurrency) => Len(GroupTasks(g)) = concurrency
        /\ it <= Ceil(L, concurrency)
        /\ outcome = "finished" =>
             /\ it = Ceil(L, concurrency)
             /\ \A p \in Positions : Cardinality(TasksOf(p)) = 1

C8_Witness ==
    /\ outcome = "finished"
    /\ L = 3 /\ concurrency = 2 /\ it = 2
    /\ Len(GroupTasks(1)) = 2 /\ Len(GroupTasks(2)) = 1

\* the steps of scan that read the concurrency limit are the same steps,
\* and are possible in the same states, with the limit n
SameScanSteps(n) ==
    /\ scan_begin_with(concurrency) <=> scan_begin_with(n)
    /\ batch_start_with(concurrency) <=> batch_start_with(n)
    /\ scan_finish_with(concurrency) <=> scan_finish_with(n)
    /\ (ENABLED batch_start_with(concurrency)) <=> (ENABLED batch_start_with(n))
    /\ (ENABLED scan_finish_with(concurrency)) <=> (ENABLED scan_finish_with(n))

\* the number of candidates scan works on, known from the wordlist on
Candidates == Len(generate_subdomains(wordlist, Domain))

OneGroupOfAll ==
    /\ \A k \in TaskIds : tasks[k].group = 1
    /\ outcome = "finished" =>
         /\ it = 1 /\ Len(tasks) = L /\ completed = L
         /\ \A p \in Positions : Finished(p)

\* C9 as stated: for every candidate sequence of length L and every limit
\* N > L, each step of the scan is the step a scan with N = L takes, and the
\* scan is one group with all candidates.
C9_LargerLimitAsLimitL ==
    [][ (pc \in {"scan", "loop"} /\ concurrency > Candidates)
          => (SameScanSteps(Candidates) /\ OneGroupOfAll') ]_vars

\* C9 amended: the same for every non-empty candidate sequence (L >= 1).
C9_LargerLimitAsLimitL_NonEmpty ==
    [][ (pc \in {"scan", "loop"} /\ concurrency > Candidates
           /\ Candidates >= 1)
          => (SameScanSteps(Candidates) /\ OneGroupOfAll') ]_vars

C9_Witness ==
    /\ outcome = "finished"
    /\ L = 2 /\ concurrency > L
    /\ it = 1 /\ Len(tasks) = 2 /\ Len(results) = 1 /\ completed = 2

\* C10: the progress counter stays within 0..total and never decreases.
C10_ProgressBounded ==
    /\ [](0 <= completed /\ completed <= total)
    /\ [][completed' >= completed]_vars

C10_Witness ==
    /\ pc = "loop"
    /\ completed >= 1 /\ completed < total
Interrupted == outcome \in {"interrupted", "cancelled"}
Started(ts) == {k \in 1..Len(ts) : ts[k].started}

\* C11: when an output path is supplied, the scan completes and the write
\* succeeds, the output file holds one line per entry of self.results in
\* the order of self.results; and self.results only ever changes by having
\* the entry of the task that finishes in that step appended at its end, so
\* its order is the order in which the successful lookups completed.
C11_FileInCompletionOrder ==
    /\ [](  (outcome = "finished" /\ output_file # None /\ writes = 1)
            => (out_file.exists /\ splitlines(out_file.text) = results))
    /\ [][ results' # results =>
            \E k \in TaskIds :
              /\ tasks[k].state = "waiting" /\ tasks'[k].state = "done"
              /\ tasks'[k].resolved_ips # <<>>
              /\ \E d \in Durations :
                   results' = Append(results,
                       FormatResult(tasks[k].subdomain,
                                    tasks'[k].resolved_ips, d)) ]_vars

C11_Witness ==
    /\ outcome = "finished" /\ writes = 1
    /\ L >= 2 /\ subdomains[1] # subdomains[2]
    /\ Len(results) = 2
    /\ \E a \in AddrLists :
         /\ EntriesFor(subdomains[2], a) = {1}
         /\ EntriesFor(subdomains[1], a) = {2}
    /\ Len(splitlines(out_file.text)) = 2

\* the step in which save_results fails
SaveFails ==
    /\ scan_finish
    /\ output_file # None
    /\ writes' = writes

SaveLogged == errlog' = Append(errlog, LogEntry("Error saving results", <<>>))

\* C12 as stated: a failing write is logged and not raised; the scan
\* finishes normally, self.results is unchanged and the progress counter
\* equals total.
C12_WriteFailureHarmless ==
    [][ (SaveFails /\ entry = "run") =>
          /\ SaveLogged
          /\ outcome' = "finished" /\ pc' = "exit"
          /\ results' = results
          /\ completed' = completed /\ completed' = total' ]_vars

\* C12 amended: the same, with the counter equal to total for N >= 1 and
\* unchanged (at 0) for N < 0.
C12_WriteFailureHarmless_Positive ==
    [][ SaveFails =>
          /\ SaveLogged
          /\ outcome' = "finished" /\ pc' = "exit"
          /\ results' = results
          /\ completed' = completed
          /\ concurrency >= 1 => completed' = total'
          /\ concurrency < 0 => completed' = 0 ]_vars

C12_Witness ==
    /\ outcome = "finished" /\ concurrency >= 1
    /\ writes = 0 /\ output_file # None
    /\ \E e \in 1..Len(errlog) : errlog[e].msg = "Error saving results"
    /\ results # <<>> /\ completed = total
    /\ out_file.exists /\ Len(splitlines(out_file.text)) < Len(results)

\* C13: once an interrupt has been received the scan is over: the program
\* has left the loop, every task is done or abandoned, and from then on no
\* further group is started and no further lookup begins.
C13_NoGroupAfterInterrupt ==
    /\ [](Interrupted =>
            /\ pc = "exit"
            /\ \A k \in TaskIds :
                 tasks[k].group <= it /\ tasks[k].state \in {"done", "cancelled"})
    /\ [][ Interrupted =>
            (it' = it /\ Len(tasks') = Len(tasks)
               /\ Started(tasks') = Started(tasks)) ]_vars

C13_Witness ==
    /\ Interrupted /\ concurrency >= 1
    /\ it >= 1 /\ it < Ceil(L, concurrency)
    /\ \E k \in TaskIds : tasks[k].state = "cancelled" /\ tasks[k].started
    /\ \E k \in TaskIds : tasks[k].state = "done"
\* C14: for a wordlist of non-empty labels generate_subdomains returns a
\* sequence of the same length whose i-th element is label_i, ".", domain,
\* in wordlist order, duplicates kept.
C14_GenerateSubdomains ==
    [][ (scan_begin /\ \A k \in 1..Len(wordlist) : wordlist[k] # <<>>) =>
          /\ Len(subdomains') = Len(wordlist)
          /\ \A k \in 1..Len(wordlist) :
               subdomains'[k] = wordlist[k] \o <<".">> \o Domain ]_vars

C14_Witness ==
    /\ entry = "run" /\ pc = "loop"
    /\ Len(wordlist) = 3 /\ L = 3
    /\ subdomains[1] = subdomains[3] /\ subdomains[1] # subdomains[2]

\* C15: in a scan with N >= 1 that ran to completion every candidate
\* occurrence has exactly one task, which sent its lookup and is done; and a
\* task that has sent its lookup never sends it again, whatever the outcome.
C15_OneAttemptPerCandidate ==
    /\ []((outcome = "finished" /\ concurrency >= 1) =>
            /\ Len(tasks) = L
            /\ \A p \in Positions :
                 /\ Cardinality(TasksOf(p)) = 1
                 /\ \A k \in TasksOf(p) :
                      /\ tasks[k].subdomain = subdomains[p]
                      /\ tasks[k].started /\ tasks[k].state = "done")
    /\ [][ \A k \in TaskIds :
            /\ tasks[k].started =>
                 (tasks'[k].started /\ tasks'[k].state # "created")
            /\ tasks[k].state = "done" => tasks'[k] = tasks[k] ]_vars

C15_Witness ==
    /\ outcome = "finished" /\ concurrency = 2 /\ L = 3
    /\ tasks[1].lookup = "DNSError" /\ tasks[2].lookup = "Exception"
    /\ tasks[3].lookup = "ok"
    /\ subdomains[1] = subdomains[2]

\* the step in which save_results is called
SaveInvoked == scan_finish /\ output_file # None

\* C16 as stated: save_results is called only in a state where every group
\* has finished, no task is in flight and completed equals total.
C16_SaveAfterAllGroups ==
    [][ (SaveInvoked /\ entry = "run") =>
          /\ Unfinished(tasks) = {}
          /\ completed = total ]_vars

\* C16 amended: save_results is called only when the loop is exhausted and
\* no task is in flight; completed then equals total for N >= 1, and is 0
\* with no task ever created for N < 0.
C16_SaveAfterAllGroups_Positive ==
    [][ SaveInvoked =>
          /\ Unfinished(tasks) = {}
          /\ \A k \in TaskIds : tasks[k].state = "done"
          /\ it = Len(PyRange(0, L, concurrency))
          /\ concurrency >= 1 => (completed = total /\ Len(tasks) = L)
          /\ concurrency < 0 => (completed = 0 /\ tasks = <<>>) ]_vars

C16_Witness ==
    /\ outcome = "finished" /\ output_file # None /\ writes = 1
    /\ concurrency >= 1 /\ it >= 2
    /\ completed = total /\ InFlight = {}

\* the error-log lines that name candidate s
ResolveErrors(s) ==
    {e \in 1..Len(errlog) : errlog[e] = LogEntry("Error resolving", s)}

\* C17: the error log holds one line naming a candidate per lookup of it
\* that failed with an unexpected (non-DNS) error and no other such line: a
\* DNS error and a successful lookup write none; either failure gives the
\* empty address list.
C17_LogOnlyUnexpected ==
    /\ \A k \in TaskIds :
         /\ Cardinality(ResolveErrors(tasks[k].subdomain)) =
              Cardinality({j \in TaskIds :
                  /\ tasks[j].subdomain = tasks[k].subdomain
                  /\ tasks[j].lookup = "Exception"})
         /\ tasks[k].lookup \in {"DNSError", "Exception"}
              => tasks[k].resolved_ips = <<>>
    /\ Cardinality({e \in 1..Len(errlog) : errlog[e].msg = "Error resolving"})
         = Cardinality({k \in TaskIds : tasks[k].lookup = "Exception"})

C17_Witness ==
    /\ \E j, k, m \in TaskIds :
        /\ tasks[j].lookup = "Exception"
        /\ tasks[k].lookup = "DNSError"
        /\ tasks[m].lookup = "ok"
        /\ tasks[j].subdomain # tasks[k].subdomain
        /\ ResolveErrors(tasks[j].subdomain) # {}
        /\ ResolveErrors(tasks[k].subdomain) = {}
\* C18: with N >= 1, when every lookup returns and no interrupt arrives,
\* a scan that has begun eventually finishes with every group run and every
\* candidate done; and while some lookup has not returned the loop can
\* neither start another group nor end, so the scan has not finished.
C18_Termination ==
    /\ (pc = "scan" /\ concurrency >= 1) ~>
          (/\ outcome = "finished"
           /\ it = Ceil(L, concurrency)
           /\ \A p \in Positions : Finished(p))
    /\ [](InFlight # {} =>
            /\ ~ENABLED batch_start
            /\ ~ENABLED scan_finish
            /\ pc = "loop" /\ outcome = "none")

C18_Witness ==
    /\ outcome = "finished" /\ concurrency >= 1
    /\ it >= 2 /\ it = Ceil(L, concurrency)
    /\ \A p \in Positions : Finished(p)
    /\ \E k \in TaskIds : tasks[k].lookup = "Exception"
HasLog(msg) == \E e \in 1..Len(errlog) : errlog[e].msg = msg

\* C19: with a concurrency limit N <= 0 no task is ever created, nothing is
\* appended to self.results and completed stays 0; with at least one
\* candidate an uninterrupted run ends with completed < total: for N = 0 by
\* the ValueError of range(), which ScannerApp.run catches and logs, for
\* N < 0 by the loop running zero times and scan returning normally.
C19_NonPositiveLimit ==
    concurrency <= 0 =>
        /\ tasks = <<>> /\ results = <<>> /\ completed = 0
        /\ (pc = "exit" /\ ~Interrupted /\ outcome # "empty_wordlist"
               /\ L >= 1) =>
             /\ completed < total
             /\ concurrency = 0 =>
                  /\ outcome = (IF entry = "run" THEN "error" ELSE "raised")
                  /\ entry = "run" => HasLog("Unexpected error")
                  /\ writes = 0 /\ out_file = NoFile
             /\ concurrency < 0 => (outcome = "finished" /\ it = 0)

C19_Witness ==
    /\ entry = "run" /\ concurrency = 0 /\ pc = "exit"
    /\ outcome = "error" /\ HasLog("Unexpected error")
    /\ total >= 2 /\ completed = 0 /\ tasks = <<>>

\* C20: after a scan with N >= 1 that completed without interrupt,
\* save_results has been called exactly once if an output path was supplied
\* (one successful write or one logged failure), and a successful write
\* leaves the file holding the lines of self.results even when there are
\* none; without an output path the file is never touched.  The file
\* changes in no other step.
C20_WrittenOnceIffPath ==
    /\ []((outcome = "finished" /\ concurrency >= 1) =>
            /\ output_file = None =>
                 (writes = 0 /\ out_file = NoFile
                    /\ ~HasLog("Error saving results"))
            /\ output_file # None =>
                 /\ writes + Cardinality({e \in 1..Len(errlog) :
                        errlog[e].msg = "Error saving results"}) = 1
                 /\ writes = 1 =>
                      out_file = [exists |-> TRUE, text |-> writelines(results)])
    /\ [][ (writes' # writes \/ out_file' # out_file) => SaveInvoked ]_vars

C20_Witness ==
    /\ outcome = "finished" /\ concurrency >= 1
    /\ output_file # None /\ total >= 1 /\ results = <<>>
    /\ writes = 1 /\ out_file.exists /\ out_file.text = <<>>
====
